---------------------------- MODULE Spec2Model ----------------------------
(***************************************************************************)
(* Model of src/main.py (Yasha clone): the arithmetic evaluator with its   *)
(* percent handling (eval_expression_with_percent, safe_eval) and the      *)
(* JSON-backed ledger (add_account, delete_account, record_transaction,    *)
(* give_*, the "Yasha, verified" archival in message_handler).             *)
(*                                                                         *)
(* Texts are sequences of one-character strings.  Numbers are exact        *)
(* rationals [num, den] in lowest terms with den > 0: Python's float and   *)
(* int results are represented by the rational they denote, binary         *)
(* rounding error of float arithmetic is not represented.                  *)
(***************************************************************************)
EXTENDS Integers, Sequences, FiniteSets, TLC

\* ------------------------------------------------------------------------
\* Characters
\* ------------------------------------------------------------------------
\* [0-9]
DigitChars == {"0", "1", "2", "3", "4", "5", "6", "7", "8", "9"}

\* \s of the regular expressions, and the whitespace of str.strip()
SpaceChars == {" "}

\* the character class of ALLOWED: [0-9\.\+\-\*\/\%\(\)\s]
AllowedChars == DigitChars \cup {".", "+", "-", "*", "/", "%", "(", ")"} \cup SpaceChars

DigitVal(c) ==
    CASE c = "0" -> 0 [] c = "1" -> 1 [] c = "2" -> 2 [] c = "3" -> 3
      [] c = "4" -> 4 [] c = "5" -> 5 [] c = "6" -> 6 [] c = "7" -> 7
      [] c = "8" -> 8 [] c = "9" -> 9

\* ------------------------------------------------------------------------
\* Rational arithmetic (the values of Python's int and float objects)
\* ------------------------------------------------------------------------
Abs(n) == IF n < 0 THEN -n ELSE n

RECURSIVE GCD(_, _)
GCD(a, b) == IF b = 0 THEN a ELSE GCD(b, a % b)

RECURSIVE Pow(_, _)
Pow(b, e) == IF e = 0 THEN 1 ELSE b * Pow(b, e - 1)

\* n/d in lowest terms, d # 0
Rat(n, d) ==
    LET g == GCD(Abs(n), Abs(d))
        s == IF d < 0 THEN -1 ELSE 1
    IN  [num |-> (s * n) \div g, den |-> (s * d) \div g]

RInt(n) == [num |-> n, den |-> 1]
RZero == RInt(0)
RAdd(a, b) == Rat(a.num * b.den + b.num * a.den, a.den * b.den)
RNeg(a) == [num |-> -a.num, den |-> a.den]
RSub(a, b) == RAdd(a, RNeg(b))
RMul(a, b) == Rat(a.num * b.num, a.den * b.den)
\* b # 0
RDiv(a, b) == Rat(a.num * b.den, a.den * b.num)
\* floor(a)
RFloor(a) == a.num \div a.den
IsZero(a) == a.num = 0
IsInteger(a) == a.den = 1

\* outcome of evaluating a (sub)expression: a value, or the raised exception
Val(v) == [ok |-> TRUE, val |-> v]
Raise == [ok |-> FALSE, val |-> RZero]

\* Python's / : ZeroDivisionError on a zero divisor
PyTrueDiv(a, b) == IF IsZero(b) THEN Raise ELSE Val(RDiv(a, b))
\* Python's // : floor of the quotient
PyFloorDiv(a, b) == IF IsZero(b) THEN Raise ELSE Val(RInt(RFloor(RDiv(a, b))))
\* Python's % : the remainder has the sign of the divisor
PyMod(a, b) ==
    IF IsZero(b) THEN Raise
    ELSE Val(RSub(a, RMul(b, RInt(RFloor(RDiv(a, b))))))
\* Python's ** for an integral exponent; a zero base with a negative exponent
\* raises ZeroDivisionError.  A non-integral exponent has no rational value:
\* it raises for a negative base (complex result, float() fails) and is
\* outside the modelled texts otherwise (see Exprs).
PyPow(a, e) ==
    IF ~IsInteger(e) THEN Raise
    ELSE IF e.num >= 0 THEN Val(Rat(Pow(a.num, e.num), Pow(a.den, e.num)))
    ELSE IF IsZero(a) THEN Raise
    ELSE Val(Rat(Pow(a.den, -e.num), Pow(a.num, -e.num)))

\* ------------------------------------------------------------------------
\* Text helpers (str.strip, slicing)
\* ------------------------------------------------------------------------
CharAt(s, p) == IF p >= 1 /\ p <= Len(s) THEN s[p] ELSE "$"

\* first position >= p that holds no whitespace (Len(s)+1 when there is none)
RECURSIVE SkipWs(_, _)
SkipWs(s, p) == IF CharAt(s, p) \in SpaceChars THEN SkipWs(s, p + 1) ELSE p

\* last position <= p that holds no whitespace (0 when there is none)
RECURSIVE SkipWsBack(_, _)
SkipWsBack(s, p) == IF CharAt(s, p) \in SpaceChars THEN SkipWsBack(s, p - 1) ELSE p

\* str.strip()
Strip(s) == SubSeq(s, SkipWs(s, 1), SkipWsBack(s, Len(s)))

\* position after the run of digits that starts at p (p itself when none)
RECURSIVE SkipDigits(_, _)
SkipDigits(s, p) == IF CharAt(s, p) \in DigitChars THEN SkipDigits(s, p + 1) ELSE p

\* value of the digit string s[from..to-1] read in base ten
RECURSIVE DigitsVal(_, _, _)
DigitsVal(s, from, to) ==
    IF to <= from THEN 0 ELSE DigitsVal(s, from, to - 1) * 10 + DigitVal(s[to - 1])

HasChar(s, c) == \E i \in 1..Len(s) : s[i] = c

\* ------------------------------------------------------------------------
\* Python's eval() on the text, restricted to what the texts of this model
\* can spell: number literals, + - * / // % **, unary + and -, parentheses,
\* whitespace, a # comment, and names (which are never bound, since the
\* globals hold only __builtins__ = None).  A parse result carries the value
\* and the position after the parsed part; ok = FALSE stands for any raised
\* exception (SyntaxError, ZeroDivisionError, NameError, TypeError).
\* ------------------------------------------------------------------------
PFail == [ok |-> FALSE, val |-> RZero, pos |-> 0]
POk(v, p) == [ok |-> TRUE, val |-> v, pos |-> p]
PLift(r, p) == IF r.ok THEN POk(r.val, p) ELSE PFail

\* a # starts a comment that runs to the end of the text
RECURSIVE CommentStart(_, _)
CommentStart(s, p) ==
    IF p > Len(s) \/ s[p] = "#" THEN p ELSE CommentStart(s, p + 1)

StripComment(s) == SubSeq(s, 1, CommentStart(s, 1) - 1)

\* number literal at p: digits [. digits*] or . digits+ ; a decimal integer
\* with a leading zero is a SyntaxError unless all its digits are zeros
ParseNumber(s, p) ==
    LET e1 == SkipDigits(s, p)
        hasDot == CharAt(s, e1) = "."
        e2 == IF hasDot THEN SkipDigits(s, e1 + 1) ELSE e1
        ip == DigitsVal(s, p, e1)
    IN  IF e1 = p /\ (~hasDot \/ e2 = e1 + 1) THEN PFail
        ELSE IF hasDot
             THEN POk(Rat(ip * Pow(10, e2 - e1 - 1) + DigitsVal(s, e1 + 1, e2),
                          Pow(10, e2 - e1 - 1)), e2)
        ELSE IF e1 - p > 1 /\ s[p] = "0" /\ ip # 0 THEN PFail
        ELSE POk(RInt(ip), e1)

RECURSIVE ParseExpr(_, _), ExprRest(_, _), ParseTerm(_, _), TermRest(_, _)
RECURSIVE ParseFactor(_, _), ParsePower(_, _), ParseAtom(_, _)

\* the closing parenthesis after the parsed inner expression
CloseParen(s, inner) ==
    IF inner.ok /\ CharAt(s, SkipWs(s, inner.pos)) = ")"
    THEN POk(inner.val, SkipWs(s, inner.pos) + 1) ELSE PFail

\* atom: NUMBER | "(" expr ")"
ParseAtom(s, p) ==
    IF CharAt(s, SkipWs(s, p)) = "(" THEN CloseParen(s, ParseExpr(s, SkipWs(s, p) + 1))
    ELSE IF CharAt(s, SkipWs(s, p)) \in DigitChars \cup {"."} THEN ParseNumber(s, SkipWs(s, p))
    ELSE PFail

\* a ** f
ApplyPow(a, f) == IF a.ok /\ f.ok THEN PLift(PyPow(a.val, f.val), f.pos) ELSE PFail

\* is the operator "**" next after the parsed atom a
PowFollows(s, a) ==
    a.ok /\ CharAt(s, SkipWs(s, a.pos)) = "*" /\ CharAt(s, SkipWs(s, a.pos) + 1) = "*"

\* the ["**" factor] after the atom a
PowerRest(s, a) ==
    IF PowFollows(s, a) THEN ApplyPow(a, ParseFactor(s, SkipWs(s, a.pos) + 2)) ELSE a

\* power: atom ["**" factor]
ParsePower(s, p) == PowerRest(s, ParseAtom(s, p))

\* sign f
ApplySign(c, f) == IF f.ok /\ c = "-" THEN POk(RNeg(f.val), f.pos) ELSE f

\* factor: ("+" | "-") factor | power
ParseFactor(s, p) ==
    IF CharAt(s, SkipWs(s, p)) \in {"+", "-"}
    THEN ApplySign(CharAt(s, SkipWs(s, p)), ParseFactor(s, SkipWs(s, p) + 1))
    ELSE ParsePower(s, p)

\* the operator of a term at q: "*", "/", "//", "%", or "" when there is none
\* ("**" is no operator of a term)
TermOp(s, q) ==
    IF CharAt(s, q) = "*" THEN (IF CharAt(s, q + 1) = "*" THEN "" ELSE "*")
    ELSE IF CharAt(s, q) = "/" THEN (IF CharAt(s, q + 1) = "/" THEN "//" ELSE "/")
    ELSE IF CharAt(s, q) = "%" THEN "%"
    ELSE ""

\* acc op f
ApplyTermOp(op, acc, f) ==
    IF ~f.ok THEN PFail
    ELSE IF op = "*" THEN POk(RMul(acc.val, f.val), f.pos)
    ELSE IF op = "//" THEN PLift(PyFloorDiv(acc.val, f.val), f.pos)
    ELSE IF op = "/" THEN PLift(PyTrueDiv(acc.val, f.val), f.pos)
    ELSE PLift(PyMod(acc.val, f.val), f.pos)

\* the (("*" | "/" | "//" | "%") factor)* after the term acc
TermRest(s, acc) ==
    IF ~acc.ok \/ TermOp(s, SkipWs(s, acc.pos)) = "" THEN acc
    ELSE TermRest(s, ApplyTermOp(TermOp(s, SkipWs(s, acc.pos)), acc,
                     ParseFactor(s, SkipWs(s, acc.pos) + Len(TermOp(s, SkipWs(s, acc.pos))))))

\* term: factor (("*" | "/" | "//" | "%") factor)*
ParseTerm(s, p) == TermRest(s, ParseFactor(s, p))

\* acc c t
ApplyExprOp(c, acc, t) ==
    IF ~t.ok THEN PFail
    ELSE IF c = "+" THEN POk(RAdd(acc.val, t.val), t.pos)
    ELSE POk(RSub(acc.val, t.val), t.pos)

\* the (("+" | "-") term)* after the sum acc
ExprRest(s, acc) ==
    IF ~acc.ok \/ CharAt(s, SkipWs(s, acc.pos)) \notin {"+", "-"} THEN acc
    ELSE ExprRest(s, ApplyExprOp(CharAt(s, SkipWs(s, acc.pos)), acc,
                                 ParseTerm(s, SkipWs(s, acc.pos) + 1)))

\* expr: term (("+" | "-") term)*
ParseExpr(s, p) == ExprRest(s, ParseTerm(s, p))

\* the whole of s must have been parsed, up to trailing whitespace
WholeText(s, r) == IF r.ok /\ SkipWs(s, r.pos) = Len(s) + 1 THEN Val(r.val) ELSE Raise

\* eval() on a text without comment
EvalText(s) == WholeText(s, ParseExpr(s, 1))

\* float(eval(expr, {"__builtins__": None}, {})): the value, or Raise when
\* eval or float raises
PyEval(expr) == EvalText(StripComment(expr))

\* ------------------------------------------------------------------------
\* safe_eval and eval_expression_with_percent
\* ------------------------------------------------------------------------
\* the text handed to eval() when none was
NoText == <<"<none>">>

\* result of the evaluator functions: ok = FALSE is Python's None; evald is the
\* text that was handed to eval() (NoText when eval() was not called)
EvNone(t) == [ok |-> FALSE, val |-> RZero, evald |-> t]
EvVal(v, t) == [ok |-> TRUE, val |-> v, evald |-> t]

\* ALLOWED.match(expr): ^[0-9\.\+\-\*\/\%\(\)\s]+$
AllowedMatch(s) == Len(s) > 0 /\ \A i \in 1..Len(s) : s[i] \in AllowedChars

\* the guard of safe_eval that returns None before eval() is called
SafeEvalRejects(s) == ~AllowedMatch(s) /\ ~HasChar(s, "%")

\* TryEval that returns the value left behind by a raised exception
TryEval_partial(s, r) == EvVal(r.val, s)

\* the try block of safe_eval: r is what float(eval(s)) gave
TryEval(s, r) == IF r.ok THEN EvVal(r.val, s) ELSE EvNone(s)

\* safe_eval after expr.strip()
SafeEvalStripped(s) ==
    IF SafeEvalRejects(s) THEN EvNone(NoText) ELSE TryEval(s, PyEval(s))

safe_eval(expr) == SafeEvalStripped(Strip(expr))

\* [0-9]+(?:\.[0-9]+)? at p: the position after the match, p when it fails
NumberEnd(s, p) ==
    LET b == SkipDigits(s, p)
        c == SkipDigits(s, b + 1)
    IN  IF b > p /\ CharAt(s, b) = "." /\ c > b + 1 THEN c ELSE b

\* float() of the text s[from..to-1] that [0-9]+(?:\.[0-9]+)? matched
NumberVal(s, from, to) ==
    LET b == SkipDigits(s, from)
    IN  IF b = to THEN RInt(DigitsVal(s, from, b))
        ELSE Rat(DigitsVal(s, from, b) * Pow(10, to - b - 1) + DigitsVal(s, b + 1, to),
                 Pow(10, to - b - 1))

\* \s*([0-9]+(?:\.[0-9]+)?)\s*%$ matches s from position p to its end
SuffixTailMatches(s, p) ==
    LET a == SkipWs(s, p)
        c == NumberEnd(s, a)
        d == SkipWs(s, c)
    IN  c > a /\ d = Len(s) /\ CharAt(s, d) = "%"

\* the positions of [+\-] at which ^(.*?)([+\-])\s*([0-9]+(?:\.[0-9]+)?)\s*%$
\* can match; the lazy (.*?) takes the first
SuffixOps(s) == {p \in 1..Len(s) : s[p] \in {"+", "-"} /\ SuffixTailMatches(s, p + 1)}

\* re.sub(r"([0-9]+(?:\.[0-9]+)?)\s*%", r"(\1/100)", s) from position i on
RECURSIVE SubPercent(_, _)
SubPercent(s, i) ==
    IF i > Len(s) THEN <<>>
    ELSE LET c == NumberEnd(s, i)
             d == SkipWs(s, c)
         IN  IF c > i /\ CharAt(s, d) = "%"
             THEN <<"(">> \o SubSeq(s, i, c - 1) \o <<"/", "1", "0", "0", ")">>
                  \o SubPercent(s, d + 1)
             ELSE <<s[i]>> \o SubPercent(s, i + 1)

\* left_val + percent_val or left_val - percent_val, None when left_val is
PercentOf(op, left_val, n) ==
    IF ~left_val.ok THEN left_val
    ELSE IF op = "+"
    THEN EvVal(RAdd(left_val.val, RMul(left_val.val, RDiv(n, RInt(100)))), left_val.evald)
    ELSE EvVal(RSub(left_val.val, RMul(left_val.val, RDiv(n, RInt(100)))), left_val.evald)

\* the branch "if m" of eval_expression_with_percent: group 2 is at p
PercentSuffix(s, p) ==
    PercentOf(s[p], safe_eval(Strip(SubSeq(s, 1, p - 1))),
              NumberVal(s, SkipWs(s, p + 1), NumberEnd(s, SkipWs(s, p + 1))))

\* eval_expression_with_percent after expr.strip()
EvalPercentStripped(s) ==
    IF SuffixOps(s) # {}
    THEN PercentSuffix(s, CHOOSE q \in SuffixOps(s) : \A r \in SuffixOps(s) : q <= r)
    ELSE safe_eval(SubPercent(s, 1))

eval_expression_with_percent(expr) == EvalPercentStripped(Strip(expr))

\* ------------------------------------------------------------------------
\* Bounds and inputs
\* ------------------------------------------------------------------------
\* latest reading of the UTC clock: a tick passes with every record, so that
\* this bounds the number of successful records; an archival run is stamped
\* with the tick it happens in
MaxClock == 2
\* number of handler invocations that can be in flight at once in the event
\* loop
MaxTasks == 2
\* longest text of the exhaustive part of Exprs
MaxExprLen == 3

\* characters of the exhaustively enumerated expression texts: two digits, the
\* point, every operator of the whitelist, the parentheses, a blank, a letter
\* and the comment sign (the last two are outside the whitelist)
ExprChars == {"0", "5", ".", "+", "-", "*", "/", "%", "(", ")", " ", "a", "#"}

\* the example texts of the specification and of the help message
ExampleExprs ==
    { <<"5", "+", "5">>,
      <<"1", "0", "0", "+", "1", "0", "%">>,
      <<"2", "0", "0", "-", "2", "5", "%">>,
      <<"2", "+", "3", "*", "4">>,
      <<"5", "0", "%", "*", "2">>,
      <<"1", "0", "%", "+", "5", "%">>,
      <<"1", ".", "0", "0", "5">>,
      <<"a", "b", "c">>,
      <<"5", "/">>,
      <<"5", "+">>,
      <<"5", "/", "0">>,
      <<"(", "1", ")", "%", "2", "#">>,
      <<"2", "5", "+", "5", "*", "3", "-", "1", "5", "/", "5">> }

\* expression texts given to the calculator
Exprs == (UNION {[1..k -> ExprChars] : k \in 0..MaxExprLen}) \cup ExampleExprs

\* expression texts given to the bookkeeping command: two that evaluate (a
\* whole number, and a decimal that ends in a half of the second place and that
\* no double holds) and two that do not
RecordExprs ==
    { <<"5", "+", "5">>, <<"1", ".", "0", "0", "5">>, <<"5", "/">>, <<"a", "b", "c">> }

\* account names as typed
NameArgs == { <<"u", "s", "d">>, <<"U", "S", "D">>, <<"X", "Y", "Z">> }

\* the optional second argument of /add as typed (<<>>: omitted)
DigitsArgs == { <<>>, <<"-", "1">>, <<"x">> }

\* comments of the bookkeeping command
Comments == { <<"t", "e", "s", "t">> }

\* ------------------------------------------------------------------------
\* str.upper, str.lower, int()
\* ------------------------------------------------------------------------
LowerLetters == <<"a", "b", "c", "d", "e", "f", "g", "h", "i", "j", "k", "l", "m",
                  "n", "o", "p", "q", "r", "s", "t", "u", "v", "w", "x", "y", "z">>
UpperLetters == <<"A", "B", "C", "D", "E", "F", "G", "H", "I", "J", "K", "L", "M",
                  "N", "O", "P", "Q", "R", "S", "T", "U", "V", "W", "X", "Y", "Z">>

UpperOf == [c \in {LowerLetters[i] : i \in 1..26} |->
               UpperLetters[CHOOSE i \in 1..26 : LowerLetters[i] = c]]
LowerOf == [c \in {UpperLetters[i] : i \in 1..26} |->
               LowerLetters[CHOOSE i \in 1..26 : UpperLetters[i] = c]]

UpperChar(c) == IF c \in DOMAIN UpperOf THEN UpperOf[c] ELSE c
LowerChar(c) == IF c \in DOMAIN LowerOf THEN LowerOf[c] ELSE c

\* name.upper()
Upper(name) == [i \in 1..Len(name) |-> UpperChar(name[i])]
\* acc.lower()
Lower(name) == [i \in 1..Len(name) |-> LowerChar(name[i])]

\* int(text) of add_cmd: an optional sign and digits; ok = FALSE is ValueError
PyInt(t) ==
    LET from == IF CharAt(t, 1) \in {"+", "-"} THEN 2 ELSE 1
    IN  IF from <= Len(t) /\ SkipDigits(t, from) = Len(t) + 1
        THEN [ok |-> TRUE,
              val |-> IF CharAt(t, 1) = "-" THEN -DigitsVal(t, from, Len(t) + 1)
                                            ELSE DigitsVal(t, from, Len(t) + 1)]
        ELSE [ok |-> FALSE, val |-> 0]

\* ------------------------------------------------------------------------
\* Decimal quantize
\* ------------------------------------------------------------------------
\* The value val of an expression is a Python float: the double nearest to
\* the rational the text denotes, which is that rational itself only when a
\* 53-bit significand holds it.  Decimal(val) is the exact value of the double,
\* so quantize sees the error of the double and not the decimal text.
\*
\* number of halvings or doublings that bring the positive rational n/d into
\* [1, 2): the binary exponent of n/d
RECURSIVE BinExp(_, _)
BinExp(n, d) ==
    IF n >= 2 * d THEN BinExp(n, 2 * d) + 1
    ELSE IF n < d THEN BinExp(2 * n, d) - 1
    ELSE 0

\* (r * 2^k) mod d
RECURSIVE ShiftMod(_, _, _)
ShiftMod(r, k, d) == IF k <= 0 THEN r % d ELSE ShiftMod((2 * r) % d, k - 1, d)

\* sign of |double nearest to val| - |val|: 0 when the double is exact, -1 when
\* it lies nearer to zero than val, 1 when it lies farther.  The double keeps
\* 52 binary places after the leading bit; what is left of val below them is
\* rounded to nearest.
FloatErr(val) ==
    IF val.num = 0 \/ val.den = 1 THEN 0
    ELSE LET rem == ShiftMod(Abs(val.num) % val.den,
                             52 - BinExp(Abs(val.num), val.den), val.den)
         IN  IF rem = 0 THEN 0 ELSE IF 2 * rem < val.den THEN -1 ELSE 1

\* float(Decimal(val).quantize(Decimal(10) ** -digits, rounding=ROUND_HALF_UP)):
\* Decimal(10) ** -digits has exponent -digits for digits >= 0 and exponent 0
\* for digits < 0 (it is the integer 10 ** -digits), so a negative digits
\* rounds to an integer; ties go away from zero.  A text that denotes an exact
\* half at the rounded place is a tie only when its double is exact: a double
\* below the half rounds towards zero.
Quantize(val, digits) ==
    LET e == IF digits > 0 THEN digits ELSE 0
        scale == Pow(10, e)
        n2 == 2 * Abs(val.num) * scale
        d2 == 2 * val.den
        half == n2 % d2 = val.den
        mag == IF half /\ FloatErr(val) < 0 THEN n2 \div d2
               ELSE (n2 + val.den) \div d2
    IN  Rat(IF val.num < 0 THEN -mag ELSE mag, scale)

\* ------------------------------------------------------------------------
\* State
\* ------------------------------------------------------------------------
VARIABLES
    accounts,      \* the dict accounts, in insertion order: a sequence of
                   \* [name, balance, digits, history]
    archive,       \* archive["archived"]: a sequence of [account, history, archived_at]
    accountsFile,  \* content of ACCOUNTS_FILE: [exists, data]
    archiveFile,   \* content of ARCHIVE_FILE: [exists, data]
    clock,         \* what datetime.utcnow() returns next
    reply,         \* outcome of the last command handled: the text it replied
                   \* with, or the exception that ended the handler
    recorded,      \* history variable: per account name, the entries recorded on
                   \* it since it was last created
    calc,          \* the calculator: [expr, fn, res] of the text being evaluated
    tasks,         \* the handler coroutines in flight: per task [pc, kind, name,
                   \* expr, msg, before]
    running        \* the task the event loop is running, 0 when it runs none

vars == <<accounts, archive, accountsFile, archiveFile, clock, reply, recorded, calc,
          tasks, running>>

ledgerVars == <<accounts, archive, accountsFile, archiveFile, clock, reply, recorded>>

loopVars == <<tasks, running>>

Tasks == 1..MaxTasks

\* a task that handles no update
IdleTask == [pc |-> "idle", kind |-> "none", name |-> <<>>, expr |-> <<>>,
             msg |-> "", before |-> <<>>]

\* the canonical account names
AccountNames == {Upper(n) : n \in NameArgs}

NoFile == [exists |-> FALSE, data |-> <<>>]
\* save_json(path, data): the file holds the whole of data
save_json(data) == [exists |-> TRUE, data |-> data]
\* load_json(path, default)
load_json(file, default) == IF file.exists THEN file.data ELSE default

\* ------------------------------------------------------------------------
\* The dict accounts
\* ------------------------------------------------------------------------
\* name in accounts
Has(accs, name) == \E i \in 1..Len(accs) : accs[i].name = name
\* the place of accounts[name]
IndexOf(accs, name) == CHOOSE i \in 1..Len(accs) : accs[i].name = name
\* accounts[name]
Get(accs, name) == accs[IndexOf(accs, name)]
\* del accounts[name]
Remove(accs, name) ==
    LET i == IndexOf(accs, name)
    IN  SubSeq(accs, 1, i - 1) \o SubSeq(accs, i + 1, Len(accs))
\* the keys of accounts
Keys(accs) == {accs[i].name : i \in 1..Len(accs)}

\* ------------------------------------------------------------------------
\* Bookkeeping functions.  Each takes the in-memory dict and the file and
\* returns them as the function leaves them, with what it returns.
\* ------------------------------------------------------------------------
MsgExists == "Account already exists."
MsgAdded == "The account was added."
MsgNotFound == "Account not found."
MsgDeleted == "The account was deleted."
MsgNoEval == "Couldn't evaluate expression."
MsgRemember == "Remember."
MsgVerified == "Verified. Past movements moved to archive."

\* add_account without name.upper(): the name is stored as typed
add_account_as_typed(accs, file, name, digits) ==
    IF Has(accs, name)
    THEN [accounts |-> accs, file |-> file, ok |-> FALSE, msg |-> MsgExists]
    ELSE LET new == Append(accs, [name |-> name, balance |-> RZero,
                                  digits |-> digits, history |-> <<>>])
         IN  [accounts |-> new, file |-> save_json(new), ok |-> TRUE, msg |-> MsgAdded]

\* add_account that sets the digits of an account that already exists
add_account_overwrite(accs, file, name, digits) ==
    LET n == Upper(name)
    IN  IF Has(accs, n)
        THEN LET new == [accs EXCEPT ![IndexOf(accs, n)].digits = digits]
             IN  [accounts |-> new, file |-> save_json(new), ok |-> FALSE, msg |-> MsgExists]
        ELSE LET new == Append(accs, [name |-> n, balance |-> RZero,
                                      digits |-> digits, history |-> <<>>])
             IN  [accounts |-> new, file |-> save_json(new), ok |-> TRUE, msg |-> MsgAdded]

add_account(accs, file, name, digits) ==
    LET n == Upper(name)
    IN  IF Has(accs, n)
        THEN [accounts |-> accs, file |-> file, ok |-> FALSE, msg |-> MsgExists]
        ELSE LET new == Append(accs, [name |-> n, balance |-> RZero,
                                      digits |-> digits, history |-> <<>>])
             IN  [accounts |-> new, file |-> save_json(new), ok |-> TRUE, msg |-> MsgAdded]

delete_account(accs, file, name) ==
    LET n == Upper(name)
    IN  IF ~Has(accs, n)
        THEN [accounts |-> accs, file |-> file, ok |-> FALSE, msg |-> MsgNotFound]
        ELSE LET new == Remove(accs, n)
             IN  [accounts |-> new, file |-> save_json(new), ok |-> TRUE, msg |-> MsgDeleted]

\* the values of eval_expression_with_percent on the texts of the bookkeeping
\* command, computed once
EvalTable == [e \in RecordExprs |-> eval_expression_with_percent(e)]

\* eval_expression_with_percent(expr), read from the table where it holds it
Evaluate(expr) ==
    IF expr \in DOMAIN EvalTable THEN EvalTable[expr]
    ELSE eval_expression_with_percent(expr)

\* AutoCreate that creates the account with 0 digits
AutoCreate_zero_digits(accs, file, n) ==
    IF Has(accs, n) THEN [accounts |-> accs, file |-> file]
    ELSE [accounts |-> add_account(accs, file, n, 0).accounts,
          file |-> add_account(accs, file, n, 0).file]

\* lines 116-118 of record_transaction: the account n is created with 2
\* digits when it is not in accounts
AutoCreate(accs, file, n) ==
    IF Has(accs, n) THEN [accounts |-> accs, file |-> file]
    ELSE [accounts |-> add_account(accs, file, n, 2).accounts,
          file |-> add_account(accs, file, n, 2).file]

\* RecordValue that adds the unrounded value to the balance
RecordValue_unrounded(created, n, val, expr, comment, now) ==
    LET i == IndexOf(created.accounts, n)
        q == Quantize(val.val, created.accounts[i].digits)
        entry == [timestamp |-> now, amount |-> q, expr |-> expr, comment |-> comment]
        new == [created.accounts EXCEPT ![i].balance = RAdd(@, val.val),
                                        ![i].history = Append(@, entry)]
    IN  IF ~val.ok
        THEN [accounts |-> created.accounts, file |-> created.file,
              ok |-> FALSE, q |-> RZero, msg |-> MsgNoEval]
        ELSE [accounts |-> new, file |-> save_json(new),
              ok |-> TRUE, q |-> q, msg |-> MsgRemember]

\* RecordValue that puts the new entry at the head of the history
RecordValue_prepend(created, n, val, expr, comment, now) ==
    LET i == IndexOf(created.accounts, n)
        q == Quantize(val.val, created.accounts[i].digits)
        entry == [timestamp |-> now, amount |-> q, expr |-> expr, comment |-> comment]
        new == [created.accounts EXCEPT ![i].balance = RAdd(@, q),
                                        ![i].history = <<entry>> \o @]
    IN  IF ~val.ok
        THEN [accounts |-> created.accounts, file |-> created.file,
              ok |-> FALSE, q |-> RZero, msg |-> MsgNoEval]
        ELSE [accounts |-> new, file |-> save_json(new),
              ok |-> TRUE, q |-> q, msg |-> MsgRemember]

\* RecordValue that does not save the ledger
RecordValue_unsaved(created, n, val, expr, comment, now) ==
    LET i == IndexOf(created.accounts, n)
        q == Quantize(val.val, created.accounts[i].digits)
        entry == [timestamp |-> now, amount |-> q, expr |-> expr, comment |-> comment]
        new == [created.accounts EXCEPT ![i].balance = RAdd(@, q),
                                        ![i].history = Append(@, entry)]
    IN  IF ~val.ok
        THEN [accounts |-> created.accounts, file |-> created.file,
              ok |-> FALSE, q |-> RZero, msg |-> MsgNoEval]
        ELSE [accounts |-> new, file |-> created.file,
              ok |-> TRUE, q |-> q, msg |-> MsgRemember]

\* lines 121-130 of record_transaction: created is the ledger after lines
\* 116-118, val the value of the expression
RecordValue(created, n, val, expr, comment, now) ==
    LET i == IndexOf(created.accounts, n)
        q == Quantize(val.val, created.accounts[i].digits)
        entry == [timestamp |-> now, amount |-> q, expr |-> expr, comment |-> comment]
        new == [created.accounts EXCEPT ![i].balance = RAdd(@, q),
                                        ![i].history = Append(@, entry)]
    IN  IF ~val.ok
        THEN [accounts |-> created.accounts, file |-> created.file,
              ok |-> FALSE, q |-> RZero, msg |-> MsgNoEval]
        ELSE [accounts |-> new, file |-> save_json(new),
              ok |-> TRUE, q |-> q, msg |-> MsgRemember]

record_transaction(accs, file, account, expr, comment, now) ==
    RecordValue(AutoCreate(accs, file, Upper(account)), Upper(account),
                Evaluate(expr), expr, comment, now)

\* archive_loop that also sets the balance of an archived account to zero
RECURSIVE archive_loop_zero_balance(_, _, _, _)
archive_loop_zero_balance(accs, arch, i, now) ==
    IF i > Len(accs) THEN [accounts |-> accs, archive |-> arch]
    ELSE IF accs[i].history # <<>>
    THEN archive_loop_zero_balance(
             [accs EXCEPT ![i].history = <<>>, ![i].balance = RZero],
             Append(arch, [account |-> accs[i].name,
                           history |-> accs[i].history,
                           archived_at |-> now]),
             i + 1, now)
    ELSE archive_loop_zero_balance(accs, arch, i + 1, now)

\* archive_loop that empties the list in place, so that the archive entry,
\* which holds the same list, is emptied with it
RECURSIVE archive_loop_same_list(_, _, _, _)
archive_loop_same_list(accs, arch, i, now) ==
    IF i > Len(accs) THEN [accounts |-> accs, archive |-> arch]
    ELSE IF accs[i].history # <<>>
    THEN archive_loop_same_list([accs EXCEPT ![i].history = <<>>],
                                Append(arch, [account |-> accs[i].name,
                                              history |-> <<>>,
                                              archived_at |-> now]),
                                i + 1, now)
    ELSE archive_loop_same_list(accs, arch, i + 1, now)

\* archive_loop that puts the new entry before the earlier ones
RECURSIVE archive_loop_insert_first(_, _, _, _)
archive_loop_insert_first(accs, arch, i, now) ==
    IF i > Len(accs) THEN [accounts |-> accs, archive |-> arch]
    ELSE IF accs[i].history # <<>>
    THEN archive_loop_insert_first([accs EXCEPT ![i].history = <<>>],
                                   <<[account |-> accs[i].name,
                                      history |-> accs[i].history,
                                      archived_at |-> now]>> \o arch,
                                   i + 1, now)
    ELSE archive_loop_insert_first(accs, arch, i + 1, now)

\* the archival loop of message_handler over list(accounts.items()), from the
\* i-th account on: an account with a non-empty history gets an archive entry
\* and an empty history
RECURSIVE archive_loop(_, _, _, _)
archive_loop(accs, arch, i, now) ==
    IF i > Len(accs) THEN [accounts |-> accs, archive |-> arch]
    ELSE IF accs[i].history # <<>>
    THEN archive_loop([accs EXCEPT ![i].history = <<>>],
                      Append(arch, [account |-> accs[i].name,
                                    history |-> accs[i].history,
                                    archived_at |-> now]),
                      i + 1, now)
    ELSE archive_loop(accs, arch, i + 1, now)

\* ------------------------------------------------------------------------
\* Initial state: the first start, before either file exists
\* ------------------------------------------------------------------------
MsgBalances == "Of your funds:"
MsgStatement == "Details /"
MsgStatementNotFound == "Account ... not found."
\* exceptions that end a handler before it replies
ErrInt == "ValueError: int()"
ErrKey == "KeyError"
ErrFormat == "ValueError: format"
NoReply == ""

NoCalc == [expr |-> <<>>, fn |-> "none", res |-> EvNone(NoText)]

InitLedger ==
    /\ accounts = load_json(NoFile, <<>>)
    /\ archive = load_json(NoFile, <<>>)
    /\ accountsFile = NoFile
    /\ archiveFile = NoFile
    /\ clock = 0
    /\ reply = NoReply
    /\ recorded = [n \in AccountNames |-> <<>>]
    /\ tasks = [t \in Tasks |-> IdleTask]
    /\ running = 0

Init ==
    /\ InitLedger
    /\ calc = NoCalc

\* ------------------------------------------------------------------------
\* message_handler: which branch a text that starts with "/" takes
\* ------------------------------------------------------------------------
\* [A-Za-z]
LetterChars == {LowerLetters[i] : i \in 1..26} \cup {UpperLetters[i] : i \in 1..26}
\* [A-Za-z0-9]
AlnumChars == LetterChars \cup DigitChars

\* all of s[from..to] lies in the character class cs
AllIn(s, from, to, cs) == \A i \in from..to : CharAt(s, i) \in cs

\* ([A-Za-z]{3,4}[_\/\\-]?[A-Za-z]{3,4})\s*([0-9\.\,]*)$ matches s from p on
RateTail(s, p) ==
    \E a \in 3..4, sep \in 0..1, c \in 3..4 :
        /\ AllIn(s, p, p + a - 1, LetterChars)
        /\ sep = 1 => CharAt(s, p + a) \in {"_", "/", "\\", "-"}
        /\ AllIn(s, p + a + sep, p + a + sep + c - 1, LetterChars)
        /\ AllIn(s, SkipWs(s, p + a + sep + c), Len(s), DigitChars \cup {".", ","})

\* m_rate: ^(rate\s+)?(...)\s*([0-9\.\,]*)$ with re.IGNORECASE
RateMatch(body) ==
    \/ RateTail(body, 1)
    \/ /\ Len(body) >= 5
       /\ Lower(SubSeq(body, 1, 4)) = <<"r", "a", "t", "e">>
       /\ body[5] \in SpaceChars
       /\ RateTail(body, SkipWs(body, 5))

\* position after the run of [A-Za-z0-9] that starts at p
RECURSIVE SkipAlnum(_, _)
SkipAlnum(s, p) == IF CharAt(s, p) \in AlnumChars THEN SkipAlnum(s, p + 1) ELSE p

\* m_acc: ^([A-Za-z0-9]{1,12})\s+(.+)$
AccMatch(body) ==
    /\ SkipAlnum(body, 1) \in 2..13
    /\ CharAt(body, SkipAlnum(body, 1)) \in SpaceChars
    /\ SkipWs(body, SkipAlnum(body, 1)) <= Len(body)

\* the text "<acc> <expr> <comment>" after the "/" of a bookkeeping command
CommandBody(acc, expr, comment) ==
    acc \o <<" ">> \o expr \o (IF comment = <<>> THEN <<>> ELSE <<" ">> \o comment)

\* the branch of message_handler that handles "/" + body
Branch(body) ==
    IF RateMatch(body) THEN "rate"
    ELSE IF AccMatch(body) THEN "bookkeeping"
    ELSE "calculator"

\* ------------------------------------------------------------------------
\* Handlers
\* ------------------------------------------------------------------------
\* add_cmd: /add <name> [digits]
AddCmd(name, digitsArg) ==
    LET d == IF digitsArg = <<>> THEN [ok |-> TRUE, val |-> 2] ELSE PyInt(digitsArg)
        r == add_account(accounts, accountsFile, name, d.val)
    IN  IF ~d.ok
        THEN /\ reply' = ErrInt
             /\ UNCHANGED <<accounts, accountsFile, recorded>>
        ELSE /\ accounts' = r.accounts
             /\ accountsFile' = r.file
             /\ reply' = r.msg
             /\ recorded' = IF r.ok THEN [recorded EXCEPT ![Upper(name)] = <<>>]
                            ELSE recorded

add_cmd ==
    /\ \E name \in NameArgs, digitsArg \in DigitsArgs : AddCmd(name, digitsArg)
    /\ UNCHANGED <<archive, archiveFile, clock, calc, tasks, running>>

\* delete_cmd: /delete <name>
DeleteCmd(name) ==
    LET r == delete_account(accounts, accountsFile, name)
    IN  /\ accounts' = r.accounts
        /\ accountsFile' = r.file
        /\ reply' = r.msg
        /\ recorded' = IF r.ok THEN [recorded EXCEPT ![Upper(name)] = <<>>]
                       ELSE recorded

delete_cmd ==
    /\ \E name \in NameArgs : DeleteCmd(name)
    /\ UNCHANGED <<archive, archiveFile, clock, calc, tasks, running>>

\* history[-20:] keeps the last 20 entries
StatementLimit == 20

\* h[-k:]
LastOf(h, k) == IF Len(h) > k THEN SubSeq(h, Len(h) - k + 1, Len(h)) ELSE h

\* reversed(h)
Reversed(h) == [j \in 1..Len(h) |-> h[Len(h) + 1 - j]]

\* give_account_statement(account, full): found is FALSE for "Account ... not
\* found."; lines holds the entries behind the lines after the two header
\* lines, in the order listed; raised is TRUE when format_amount raises
\* ValueError, which it does on the first entry of an account with negative
\* digits
give_account_statement(accs, account, full) ==
    IF ~Has(accs, Upper(account))
    THEN [found |-> FALSE, raised |-> FALSE, lines |-> <<>>]
    ELSE LET info == Get(accs, Upper(account))
             history == IF full THEN info.history
                        ELSE LastOf(info.history, StatementLimit)
         IN  IF history # <<>> /\ info.digits < 0
             THEN [found |-> TRUE, raised |-> TRUE, lines |-> <<>>]
             ELSE [found |-> TRUE, raised |-> FALSE, lines |-> Reversed(history)]

\* give_balances(): raised is TRUE when format_amount raises ValueError for an
\* account with negative digits; lines holds the names listed
give_balances(accs) ==
    IF \E i \in 1..Len(accs) : accs[i].digits < 0
    THEN [raised |-> TRUE, lines |-> <<>>]
    ELSE [raised |-> FALSE, lines |-> [i \in 1..Len(accs) |-> Lower(accs[i].name)]]

\* what give_cmd replies: give_balances() without an argument, else
\* give_account_statement(name, full=False)
GiveReply(name) ==
    IF name = <<>>
    THEN (IF give_balances(accounts).raised THEN ErrFormat ELSE MsgBalances)
    ELSE IF ~give_account_statement(accounts, name, FALSE).found THEN MsgStatementNotFound
    ELSE IF give_account_statement(accounts, name, FALSE).raised THEN ErrFormat
    ELSE MsgStatement

\* give_cmd: /give [name]; it reads the ledger and changes nothing
give_cmd ==
    /\ \E name \in NameArgs \cup {<<>>} : reply' = GiveReply(name)
    /\ UNCHANGED <<accounts, archive, accountsFile, archiveFile, clock, recorded, calc,
                   tasks, running>>

\* the branch taken by each bookkeeping text of the model, computed once
BranchTable ==
    [acc \in NameArgs, expr \in RecordExprs, comment \in Comments |->
        Branch(CommandBody(acc, expr, comment))]

\* lines 322-323 of message_handler, after a record on the id typed as acc:
\* accounts[acc] raises KeyError unless acc is a key as typed, and
\* format_amount raises ValueError for negative digits
AfterRecord(accs, acc) ==
    IF ~Has(accs, acc) THEN ErrKey
    ELSE IF Get(accs, acc).digits < 0 THEN ErrFormat
    ELSE MsgRemember

\* message_handler, bookkeeping entry: /<acc> <expr> [comment], where r is
\* what record_transaction did and returned.  After a successful record the handler reads accounts[acc] with the name as typed
\* and formats with the account's digits, either of which can raise after the
\* ledger was changed and saved.
Bookkeeping(acc, expr, comment, r) ==
    LET n == Upper(acc)
    IN  /\ r.ok => clock < MaxClock
        /\ clock' = IF r.ok THEN clock + 1 ELSE clock
        /\ accounts' = r.accounts
        /\ accountsFile' = r.file
        /\ reply' = IF ~r.ok THEN r.msg ELSE AfterRecord(r.accounts, acc)
        /\ recorded' =
              IF r.ok
              THEN [recorded EXCEPT ![n] =
                       Append(IF Has(accounts, n) THEN @ ELSE <<>>,
                              [timestamp |-> clock, amount |-> r.q,
                               expr |-> expr, comment |-> comment])]
              ELSE IF Has(accounts, n) THEN recorded
              ELSE [recorded EXCEPT ![n] = <<>>]

bookkeeping ==
    /\ \E acc \in NameArgs, expr \in RecordExprs, comment \in Comments :
          /\ BranchTable[acc, expr, comment] = "bookkeeping"
          /\ Bookkeeping(acc, expr, comment,
                         record_transaction(accounts, accountsFile, acc, expr, comment, clock))
    /\ UNCHANGED <<archive, archiveFile, calc, tasks, running>>

\* message_handler, "Yasha, verified": archive every non-empty history, then
\* save both files
verified ==
    LET r == archive_loop(accounts, archive, 1, clock)
    IN  /\ accounts' = r.accounts
        /\ archive' = r.archive
        /\ accountsFile' = save_json(r.accounts)
        /\ archiveFile' = save_json(r.archive)
        /\ reply' = MsgVerified
        /\ UNCHANGED <<clock, recorded, calc, tasks, running>>

Next == add_cmd \/ delete_cmd \/ give_cmd \/ bookkeeping \/ verified

Spec == Init /\ [][Next]_vars

\* ------------------------------------------------------------------------
\* The evaluator alone: every text of Exprs is given to safe_eval and to
\* eval_expression_with_percent
\* ------------------------------------------------------------------------
InitEval ==
    /\ InitLedger
    /\ \E e \in Exprs : calc = [expr |-> e, fn |-> "none", res |-> EvNone(NoText)]

CallSafeEval ==
    /\ calc.fn = "none"
    /\ calc' = [calc EXCEPT !.fn = "safe_eval", !.res = safe_eval(calc.expr)]
    /\ UNCHANGED <<ledgerVars, loopVars>>

CallEvalPercent ==
    /\ calc.fn = "none"
    /\ calc' = [calc EXCEPT !.fn = "eval_expression_with_percent",
                            !.res = eval_expression_with_percent(calc.expr)]
    /\ UNCHANGED <<ledgerVars, loopVars>>

MsgCalcFail == "Couldn't evaluate the expression or unrecognized command."
MsgCalcResult == "... = ..."

\* message_handler, calculator: "/" + calc.expr is a text that is neither a
\* rate query nor a bookkeeping entry; the reply is the failure message or the
\* value formatted with 8 digits (format_amount raises for a value of 10^20 or
\* more, which no text of Exprs denotes)
Calculator(body, val) ==
    /\ Branch(body) = "calculator"
    /\ calc' = [calc EXCEPT !.fn = "calculator", !.res = val]
    /\ reply' = IF val.ok THEN MsgCalcResult ELSE MsgCalcFail
    /\ UNCHANGED <<accounts, archive, accountsFile, archiveFile, clock, recorded,
                   tasks, running>>

calculator ==
    /\ calc.fn = "none"
    /\ Calculator(Strip(calc.expr), eval_expression_with_percent(Strip(calc.expr)))

\* message_handler, bookkeeping entry with the text calc.expr as its
\* expression: the expression is the first blank-separated word after the id
CallRecord ==
    /\ calc.fn = "none"
    /\ calc.expr # <<>>
    /\ ~HasChar(calc.expr, " ")
    /\ \E acc \in NameArgs, comment \in Comments :
          /\ Branch(CommandBody(acc, calc.expr, comment)) = "bookkeeping"
          /\ Bookkeeping(acc, calc.expr, comment,
                         record_transaction(accounts, accountsFile, acc, calc.expr,
                                            comment, clock))
    /\ calc' = [calc EXCEPT !.fn = "record_transaction", !.res = Evaluate(calc.expr)]
    /\ UNCHANGED <<archive, archiveFile, tasks, running>>

NextEval == CallSafeEval \/ CallEvalPercent \/ calculator \/ CallRecord

SpecEval == InitEval /\ [][NextEval]_vars

\* ------------------------------------------------------------------------
\* The handlers as coroutines of one event loop.  A handler is an async def
\* that the loop runs, without running anything else, up to an await; the only
\* await of each handler is that of update.message.reply_text(...), its last
\* statement.  Here every handler is taken statement by statement, several
\* invocations can be in flight, and the loop picks any task that can go on
\* whenever the running one awaits or ends.
\* ------------------------------------------------------------------------
\* id and expressions of the commands handled concurrently (the history
\* variable recorded is kept by the handlers of Spec only)
LoopNames == { <<"u", "s", "d">> }
LoopExprs == { <<"5", "+", "5">>, <<"5", "/">> }
LoopKinds == {"add", "delete", "give", "record", "verified"}

\* the statements at which a coroutine can be suspended: the await of the reply
Suspends_at_save(p) == p \in {"reply", "save", "save_created", "save_archive"}

Suspends(p) == p = "reply"

\* the loop can run a step of task t: it is running t, or it runs no task and
\* t waits to be started or resumed
CanRun(t) ==
    \/ running = t
    \/ running = 0 /\ (tasks[t].pc = "idle" \/ Suspends(tasks[t].pc))

\* task t goes on to the statement p: the loop keeps running it unless it is
\* suspended there or has ended
GoTo(t, p, m) ==
    /\ tasks' = [tasks EXCEPT ![t].pc = p, ![t].msg = m]
    /\ running' = IF p = "idle" \/ Suspends(p) THEN 0 ELSE t

\* the first statement of each handler
FirstPc(kind) ==
    CASE kind = "add" -> "add_account"
      [] kind = "delete" -> "delete_account"
      [] kind = "give" -> "reply"
      [] kind = "record" -> "auto_create"
      [] kind = "verified" -> "archive_loop"

\* the loop starts a handler for an update
Start(t) ==
    /\ CanRun(t)
    /\ tasks[t].pc = "idle"
    /\ \E kind \in LoopKinds, name \in LoopNames, expr \in LoopExprs :
          /\ (kind = "record" /\ Evaluate(expr).ok) => clock < MaxClock
          /\ tasks' = [tasks EXCEPT ![t] =
                [pc |-> FirstPc(kind), kind |-> kind,
                 name |-> IF kind = "verified" THEN <<>> ELSE name,
                 expr |-> IF kind = "record" THEN expr ELSE <<>>,
                 msg |-> IF kind = "give" THEN GiveReply(name) ELSE "",
                 before |-> <<>>]]
          /\ running' = IF Suspends(FirstPc(kind)) THEN 0 ELSE t
    /\ UNCHANGED <<ledgerVars, calc>>

\* add_account, lines 99-102: the assignment to accounts[name]
AddAccountStep(t) ==
    /\ CanRun(t)
    /\ tasks[t].pc = "add_account"
    /\ LET r == add_account(accounts, accountsFile, tasks[t].name, 2)
       IN  /\ accounts' = r.accounts
           /\ GoTo(t, IF r.ok THEN "save" ELSE "reply", r.msg)
    /\ UNCHANGED <<archive, accountsFile, archiveFile, clock, reply, recorded, calc>>

\* delete_account, lines 107-110: the del
DeleteAccountStep(t) ==
    /\ CanRun(t)
    /\ tasks[t].pc = "delete_account"
    /\ LET r == delete_account(accounts, accountsFile, tasks[t].name)
       IN  /\ accounts' = r.accounts
           /\ GoTo(t, IF r.ok THEN "save" ELSE "reply", r.msg)
    /\ UNCHANGED <<archive, accountsFile, archiveFile, clock, reply, recorded, calc>>

\* record_transaction, lines 115-118 up to the assignment in add_account
AutoCreateStep(t) ==
    /\ CanRun(t)
    /\ tasks[t].pc = "auto_create"
    /\ accounts' = AutoCreate(accounts, accountsFile, Upper(tasks[t].name)).accounts
    /\ GoTo(t, IF Has(accounts, Upper(tasks[t].name)) THEN "eval" ELSE "save_created", "")
    /\ UNCHANGED <<archive, accountsFile, archiveFile, clock, reply, recorded, calc>>

\* record_transaction, lines 120-122
EvalStep(t) ==
    /\ CanRun(t)
    /\ tasks[t].pc = "eval"
    /\ GoTo(t, IF Evaluate(tasks[t].expr).ok THEN "append" ELSE "reply",
               IF Evaluate(tasks[t].expr).ok THEN "" ELSE MsgNoEval)
    /\ UNCHANGED <<ledgerVars, calc>>

\* record_transaction, lines 124-128: the balance and the history are changed
AppendStep(t) ==
    /\ CanRun(t)
    /\ tasks[t].pc = "append"
    /\ Has(accounts, Upper(tasks[t].name))
    /\ clock < MaxClock
    /\ accounts' = RecordValue([accounts |-> accounts, file |-> accountsFile],
                               Upper(tasks[t].name), Evaluate(tasks[t].expr),
                               tasks[t].expr, <<>>, clock).accounts
    /\ clock' = clock + 1
    /\ GoTo(t, "save", "")
    /\ UNCHANGED <<archive, accountsFile, archiveFile, reply, recorded, calc>>

\* message_handler, lines 279-282: the archival loop; before keeps what the
\* ledger file holds when the run begins
ArchiveLoopStep(t) ==
    /\ CanRun(t)
    /\ tasks[t].pc = "archive_loop"
    /\ accounts' = archive_loop(accounts, archive, 1, clock).accounts
    /\ archive' = archive_loop(accounts, archive, 1, clock).archive
    /\ tasks' = [tasks EXCEPT ![t].pc = "save",
                              ![t].before = load_json(accountsFile, <<>>)]
    /\ running' = IF Suspends("save") THEN 0 ELSE t
    /\ UNCHANGED <<accountsFile, archiveFile, clock, reply, recorded, calc>>

\* the statement after save_json(ACCOUNTS_FILE, accounts) in each handler, with
\* what the handler will reply
AfterSave(t) ==
    CASE tasks[t].pc = "save_created" -> [pc |-> "eval", msg |-> ""]
      [] tasks[t].kind = "verified" -> [pc |-> "save_archive", msg |-> ""]
      [] tasks[t].kind = "record" ->
            [pc |-> "reply", msg |-> AfterRecord(accounts, tasks[t].name)]
      [] OTHER -> [pc |-> "reply", msg |-> tasks[t].msg]

\* save_json(ACCOUNTS_FILE, accounts): lines 103, 111, 129 and 283
SaveStep(t) ==
    /\ CanRun(t)
    /\ tasks[t].pc \in {"save", "save_created"}
    /\ accountsFile' = save_json(accounts)
    /\ GoTo(t, AfterSave(t).pc, AfterSave(t).msg)
    /\ UNCHANGED <<accounts, archive, archiveFile, clock, reply, recorded, calc>>

\* save_json(ARCHIVE_FILE, archive): line 284
SaveArchiveStep(t) ==
    /\ CanRun(t)
    /\ tasks[t].pc = "save_archive"
    /\ archiveFile' = save_json(archive)
    /\ tasks' = [tasks EXCEPT ![t].pc = "reply", ![t].msg = MsgVerified,
                              ![t].before = <<>>]
    /\ running' = IF Suspends("reply") THEN 0 ELSE t
    /\ UNCHANGED <<accounts, archive, accountsFile, clock, reply, recorded, calc>>

\* await update.message.reply_text(...): the reply is sent and the handler
\* ends (a handler that raised after its record ends here without a reply)
ReplyStep(t) ==
    /\ CanRun(t)
    /\ tasks[t].pc = "reply"
    /\ reply' = tasks[t].msg
    /\ tasks' = [tasks EXCEPT ![t] = IdleTask]
    /\ running' = 0
    /\ UNCHANGED <<accounts, archive, accountsFile, archiveFile, clock, recorded, calc>>

NextLoop ==
    \E t \in Tasks :
        \/ Start(t)
        \/ AddAccountStep(t)
        \/ DeleteAccountStep(t)
        \/ AutoCreateStep(t)
        \/ EvalStep(t)
        \/ AppendStep(t)
        \/ ArchiveLoopStep(t)
        \/ SaveStep(t)
        \/ SaveArchiveStep(t)
        \/ ReplyStep(t)

SpecLoop == Init /\ [][NextLoop]_vars

\* ------------------------------------------------------------------------
\* Properties
\* ------------------------------------------------------------------------
\* replies after which record_transaction has returned True
RecordedReplies == {MsgRemember, ErrKey, ErrFormat}

\* sum of the amounts of the entries of h
RECURSIVE SumAmounts(_)
SumAmounts(h) ==
    IF h = <<>> THEN RZero ELSE RAdd(SumAmounts(SubSeq(h, 1, Len(h) - 1)), h[Len(h)].amount)

\* names of the accounts that are in the ledger before and after a step
Staying == Keys(accounts) \cap Keys(accounts')

\* C1: a record whose expression does not evaluate leaves the set of
\* accounts, every balance, digits and history, and the saved ledger as they
\* were, also when the account did not exist before.
C1_FailedRecordLeavesLedger ==
    [][reply' = MsgNoEval => accounts' = accounts /\ accountsFile' = accountsFile]_vars

NewEntriesFor(n) ==
    {k \in (Len(archive) + 1)..Len(archive') : archive'[k].account = n}

\* C3: an archival run empties every non-empty history and keeps the balance,
\* adds exactly one archive entry for each such account, and adds none for and
\* changes nothing of an account whose history was empty.
C3_ArchivalRun ==
    [][reply' = MsgVerified =>
          /\ Len(accounts') = Len(accounts)
          /\ \A i \in 1..Len(accounts) :
                /\ accounts'[i].name = accounts[i].name
                /\ accounts'[i].balance = accounts[i].balance
                /\ accounts'[i].history = <<>>
                /\ accounts[i].history # <<>> =>
                      Cardinality(NewEntriesFor(accounts[i].name)) = 1
                /\ accounts[i].history = <<>> =>
                      /\ NewEntriesFor(accounts[i].name) = {}
                      /\ accounts'[i] = accounts[i]
          /\ Len(archive') = Len(archive)
                + Cardinality({i \in 1..Len(accounts) : accounts[i].history # <<>>})]_vars

\* one archival run has archived two accounts that keep a non-zero balance
C3_Witness ==
    /\ reply = MsgVerified
    /\ Len(archive) = 2
    /\ archive[1].account # archive[2].account
    /\ archive[1].archived_at = archive[2].archived_at
    /\ \A i \in 1..Len(accounts) : accounts[i].history = <<>>
    /\ \E i \in 1..Len(accounts) : ~IsZero(accounts[i].balance)

\* C4: for an account that is in the ledger before and after a step, the step
\* leaves the history as it is, or a record appends one entry at its end, or
\* the archival empties it.
C4_HistoryAppendOnly ==
    [][\A n \in Staying :
          LET h == Get(accounts, n).history
              h2 == Get(accounts', n).history
          IN  \/ h2 = h
              \/ /\ reply' \in RecordedReplies
                 /\ Len(h2) = Len(h) + 1
                 /\ SubSeq(h2, 1, Len(h)) = h
              \/ /\ reply' = MsgVerified
                 /\ h2 = <<>>]_vars

\* a record has appended to a history that already held an entry
C4_Witness ==
    /\ reply \in RecordedReplies
    /\ \E i \in 1..Len(accounts) :
          /\ Len(accounts[i].history) = 2
          /\ accounts[i].history[1] # accounts[i].history[2]

\* C5: no step changes the digits of an account that is in the ledger before
\* and after it, and add_account with any digits leaves the digits of every
\* account of the ledger as they are.
C5_DigitsImmutable ==
    /\ [][\A n \in Staying : Get(accounts', n).digits = Get(accounts, n).digits]_vars
    /\ [](\A name \in NameArgs, d \in {-1, 0, 2, 3} :
             LET r == add_account(accounts, accountsFile, name, d)
             IN  \A n \in Keys(accounts) :
                    Has(r.accounts, n) /\ Get(r.accounts, n).digits = Get(accounts, n).digits)

\* a create was rejected as a duplicate while an account has digits other
\* than the default of /add
C5_Witness ==
    /\ reply = MsgExists
    /\ \E i \in 1..Len(accounts) : accounts[i].digits # 2

\* C6: the digits of every live account is a non-negative integer.
C6_DigitsNonNegative ==
    \A i \in 1..Len(accounts) : accounts[i].digits >= 0

\* C7: a create of an existing id, whatever its letter case, is rejected with
\* "Account already exists." and a delete of an absent id with "Account not
\* found."; a step with either reply leaves the ledger and its file as they
\* were, and no two live accounts differ only in letter case.
C7_RejectedOpsDoNotMutate ==
    /\ [](\A i, j \in 1..Len(accounts) :
             Upper(accounts[i].name) = Upper(accounts[j].name) => i = j)
    /\ [](\A name \in NameArgs :
             /\ Has(accounts, Upper(name)) =>
                   add_account(accounts, accountsFile, name, 2) =
                      [accounts |-> accounts, file |-> accountsFile,
                       ok |-> FALSE, msg |-> MsgExists]
             /\ ~Has(accounts, Upper(name)) =>
                   delete_account(accounts, accountsFile, name) =
                      [accounts |-> accounts, file |-> accountsFile,
                       ok |-> FALSE, msg |-> MsgNotFound])
    /\ [][reply' \in {MsgExists, MsgNotFound} =>
             accounts' = accounts /\ accountsFile' = accountsFile]_vars

\* a create was rejected as a duplicate in a ledger that holds accounts
C7_Witness ==
    /\ reply = MsgExists
    /\ Len(accounts) = 2
    /\ accountsFile = save_json(accounts)

\* C8: a record that succeeds on an id that is not in the ledger leaves an
\* account of that id with digits 2, the rounded amount as balance and a history
\* of that one entry; "5+5" gives the balance 10.
C8_AutoCreate ==
    \A name \in NameArgs, expr \in RecordExprs, comment \in Comments :
        LET r == record_transaction(accounts, accountsFile, name, expr, comment, clock)
            n == Upper(name)
        IN  r.ok /\ ~Has(accounts, n) =>
               /\ Len(r.accounts) = Len(accounts) + 1
               /\ SubSeq(r.accounts, 1, Len(accounts)) = accounts
               /\ r.accounts[Len(r.accounts)] =
                     [name |-> n, balance |-> r.q, digits |-> 2,
                      history |-> <<[timestamp |-> clock, amount |-> r.q,
                                     expr |-> expr, comment |-> comment]>>]
               /\ r.q = Quantize(eval_expression_with_percent(expr).val, 2)
               /\ expr = <<"5", "+", "5">> => r.q = RInt(10)

\* the only command so far recorded "5+5" on XYZ, which was not in the ledger
C8_Witness ==
    /\ reply = MsgRemember
    /\ clock = 1
    /\ accounts = <<[name |-> <<"X", "Y", "Z">>, balance |-> RInt(10), digits |-> 2,
                     history |-> <<[timestamp |-> 0, amount |-> RInt(10),
                                    expr |-> <<"5", "+", "5">>,
                                    comment |-> <<"t", "e", "s", "t">>]>>]>>
    /\ recorded[<<"X", "Y", "Z">>] = accounts[1].history
    /\ accountsFile = save_json(accounts)

\* C9: what the files hold is the whole in-memory ledger and the whole
\* in-memory archive: a restart would load the state the program is in.
C9_PersistedEqualsMemory ==
    /\ load_json(accountsFile, <<>>) = accounts
    /\ load_json(archiveFile, <<>>) = archive

\* both files were written and a record was made after the archival
C9_Witness ==
    /\ accountsFile.exists /\ archiveFile.exists
    /\ archive # <<>>
    /\ \E i \in 1..Len(accounts) : accounts[i].history # <<>>

\* C10: a text with a character outside the whitelist is rejected by safe_eval
\* and by eval_expression_with_percent with None and is never handed to eval().
C10_WhitelistRejects ==
    (calc.fn # "none" /\ \E i \in 1..Len(calc.expr) : calc.expr[i] \notin AllowedChars)
        => (~calc.res.ok /\ calc.res.evald = NoText)

\* number of places of s that hold the character c
CountChar(s, c) == Cardinality({i \in 1..Len(s) : s[i] = c})

\* s spells a division by the literal zero: "/0" at the end of the text or
\* before "+", "-" or ")"
DividesByZero(s) ==
    \E i \in 1..Len(s) :
        /\ s[i] = "/"
        /\ CharAt(s, i + 1) = "0"
        /\ (i + 1 = Len(s) \/ CharAt(s, i + 2) \in {"+", "-", ")"})

\* a text of whitelisted characters that is no arithmetic expression, or
\* divides by zero: it is blank, ends with a binary operator, starts with an
\* operator that needs a left operand, has unbalanced parentheses, or
\* divides by the literal zero
Malformed(e) ==
    /\ \A i \in 1..Len(e) : e[i] \in AllowedChars
    /\ LET s == Strip(e)
       IN  \/ s = <<>>
           \/ s[Len(s)] \in {"+", "-", "*", "/"}
           \/ s[1] \in {"*", "/", "%"}
           \/ CountChar(s, "(") # CountChar(s, ")")
           \/ DividesByZero(s)

C12_PercentSuffix ==
    (calc.fn = "eval_expression_with_percent" /\ SuffixOps(Strip(calc.expr)) # {}) =>
        LET s == Strip(calc.expr)
            p == CHOOSE q \in SuffixOps(s) : \A r \in SuffixOps(s) : q <= r
            v == eval_expression_with_percent(SubSeq(s, 1, p - 1))
            n == NumberVal(s, SkipWs(s, p + 1), NumberEnd(s, SkipWs(s, p + 1)))
            part == RMul(v.val, RDiv(n, RInt(100)))
        IN  /\ calc.res.ok = v.ok
            /\ v.ok => calc.res.val = IF s[p] = "+" THEN RAdd(v.val, part)
                                      ELSE RSub(v.val, part)
            /\ s = <<"1", "0", "0", "+", "1", "0", "%">> => calc.res.val = RInt(110)
            /\ s = <<"2", "0", "0", "-", "2", "5", "%">> => calc.res.val = RInt(150)

\* val rounded half up (halves away from zero) to digits places after the
\* point, to a multiple of 10^-digits when digits is negative
HalfUp(val, digits) ==
    LET scale == Pow(10, Abs(digits))
        sign == IF val.num < 0 THEN -1 ELSE 1
    IN  IF digits >= 0
        THEN Rat(sign * ((2 * Abs(val.num) * scale + val.den) \div (2 * val.den)), scale)
        ELSE RInt(sign * scale
                    * ((2 * Abs(val.num) + val.den * scale) \div (2 * val.den * scale)))

\* C13: the amount of every stored entry is the value of its expression
\* rounded half up to the digits of its account, and it is what was added to
\* the balance; 1.005 recorded with digits 2 is stored as 1.01.
C13_RoundHalfUp ==
    \A i \in 1..Len(accounts) :
        /\ \A k \in 1..Len(accounts[i].history) :
              LET h == accounts[i].history[k]
              IN  /\ h.amount = HalfUp(Evaluate(h.expr).val, accounts[i].digits)
                  /\ (h.expr = <<"1", ".", "0", "0", "5">> /\ accounts[i].digits = 2)
                        => h.amount = Rat(101, 100)
        /\ accounts[i].balance = SumAmounts(recorded[accounts[i].name])

\* the lesser of a and b
Min(a, b) == IF a < b THEN a ELSE b

\* C16: the statement of an existing account lists the last min(20, n) entries
\* of its history of n entries, newest first, and with the full flag all n
\* entries newest first; a listing step changes neither the ledger nor the
\* archive.
C16_Statement ==
    /\ [](\A name \in NameArgs, full \in BOOLEAN :
             Has(accounts, Upper(name)) =>
                LET h == Get(accounts, Upper(name)).history
                    st == give_account_statement(accounts, name, full)
                    k == IF full THEN Len(h) ELSE Min(20, Len(h))
                IN  /\ st.found /\ ~st.raised
                    /\ Len(st.lines) = k
                    /\ \A j \in 1..k : st.lines[j] = h[Len(h) + 1 - j])
    /\ [][reply' \in {MsgBalances, MsgStatement, MsgStatementNotFound} =>
             UNCHANGED <<accounts, archive, accountsFile, archiveFile>>]_vars

\* a step in which an entry was appended to the history of the account named n
Appended(n) ==
    /\ Has(accounts', n)
    /\ Len(Get(accounts', n).history) >
          (IF Has(accounts, n) THEN Len(Get(accounts, n).history) ELSE 0)

\* C17: a bookkeeping command whose expression evaluates is answered with
\* "Remember. <amount> Balance: <balance>", in whatever letter case the id was
\* typed: the handler does not end in an exception after the record.
C17_ReplyAfterRecord ==
    [][(\E n \in AccountNames : Appended(n)) => reply' = MsgRemember]_vars

\* the entries of the first k archive entries that carry the id n, in order
RECURSIVE ArchivedEntries(_, _, _)
ArchivedEntries(arch, n, k) ==
    IF k = 0 THEN <<>>
    ELSE ArchivedEntries(arch, n, k - 1)
            \o (IF arch[k].account = n THEN arch[k].history ELSE <<>>)

\* all stored entries of the id n: the archived ones, then the live history
StoredEntries(accs, arch, n) ==
    ArchivedEntries(arch, n, Len(arch))
        \o (IF Has(accs, n) THEN Get(accs, n).history ELSE <<>>)

\* the entries of the history h, as a set
EntrySet(h) == {h[j] : j \in 1..Len(h)}

\* C15: an archival run gives every account with a non-empty history one new
\* archive entry that carries its id and its history as it was, in the same
\* order, and leaves it an empty history; over archive and live history
\* together no entry of any id is lost, repeated or moved; a record after
\* the archival appends to the live history and leaves the archive as it is.
C15_ArchivalMovesHistory ==
    [][/\ reply' = MsgVerified =>
             /\ \A i \in 1..Len(accounts) :
                   accounts[i].history # <<>> =>
                      /\ accounts'[i].history = <<>>
                      /\ \A k \in NewEntriesFor(accounts[i].name) :
                            archive'[k].history = accounts[i].history
                      /\ NewEntriesFor(accounts[i].name) # {}
             /\ \A n \in AccountNames :
                   StoredEntries(accounts', archive', n) = StoredEntries(accounts, archive, n)
       /\ \A n \in AccountNames :
             Appended(n) =>
                /\ archive' = archive
                /\ \A k \in 1..Len(archive') :
                      Get(accounts', n).history[Len(Get(accounts', n).history)]
                         \notin EntrySet(archive'[k].history)]_vars

\* a record was made on an account after its earlier history was archived
C15_Witness ==
    /\ reply \in RecordedReplies
    /\ \E i \in 1..Len(accounts), k \in 1..Len(archive) :
          /\ archive[k].account = accounts[i].name
          /\ archive[k].history # <<>>
          /\ Len(accounts[i].history) = 1
          /\ EntrySet(accounts[i].history) \cap EntrySet(archive[k].history) = {}

\* C18: every step leaves the archive entries it finds in place, unmodified and
\* in order; only an archival run adds entries, behind them: create, delete,
\* record and the listings leave the archive and its file as they are.
C18_ArchiveAppendOnly ==
    [][/\ Len(archive') >= Len(archive)
       /\ SubSeq(archive', 1, Len(archive)) = archive
       /\ reply' # MsgVerified => (archive' = archive /\ archiveFile' = archiveFile)
       /\ reply' = MsgDeleted =>
             \A n \in AccountNames :
                ArchivedEntries(archive', n, Len(archive')) =
                   ArchivedEntries(archive, n, Len(archive))]_vars

\* an account was deleted whose earlier history is in the archive, where the
\* entry has stayed
C18_Witness ==
    /\ reply = MsgDeleted
    /\ \E k \in 1..Len(archive) :
          /\ ~Has(accounts, archive[k].account)
          /\ archive[k].history # <<>>
    /\ archiveFile = save_json(archive)

\* sum of the amounts of the first k archive entries that carry the id n
ArchivedSum(arch, n, k) == SumAmounts(ArchivedEntries(arch, n, k))

\* C20: the balance of every live account is the sum of the amounts of its live
\* history and of all archive entries that carry its id, also after the id was
\* deleted and created again.
C20_BalanceReconstructible ==
    \A i \in 1..Len(accounts) :
        accounts[i].balance =
            RAdd(SumAmounts(accounts[i].history),
                 ArchivedSum(archive, accounts[i].name, Len(archive)))

\* task t has changed the ledger or the archive in memory and not yet written
\* the file
Dirty(t) == tasks[t].pc \in {"save", "save_created", "save_archive"}

\* task t is inside its handler, before the await of the reply
InHandler(t) == tasks[t].pc \notin {"idle", "reply"}

\* C14: while a handler is between a change of the ledger and the write of the
\* file, only that handler takes steps, and its steps are the writes; when the
\* loop runs no task, every handler in flight is suspended at its reply and both
\* files hold what is in memory; at most one handler is inside its body.
C14_MutationThenPersistence ==
    /\ [](Cardinality({t \in Tasks : InHandler(t)}) <= 1)
    /\ [](running = 0 =>
             /\ \A t \in Tasks : ~InHandler(t)
             /\ load_json(accountsFile, <<>>) = accounts
             /\ load_json(archiveFile, <<>>) = archive)
    /\ [][\A t \in Tasks :
             Dirty(t) =>
                /\ tasks'[t] # tasks[t]
                /\ \A u \in Tasks \ {t} : tasks'[u] = tasks[u]
                /\ accounts' = accounts /\ archive' = archive
                /\ \/ tasks[t].pc # "save_archive" /\ accountsFile' = save_json(accounts)
                   \/ tasks[t].pc = "save_archive" /\ archiveFile' = save_json(archive)]_vars

\* a record is suspended at its reply while an archival run, started after it,
\* is between its two writes
C14_Witness ==
    \E t, u \in Tasks :
        /\ tasks[t].kind = "record" /\ tasks[t].pc = "reply"
        /\ tasks[t].msg \in RecordedReplies
        /\ tasks[u].kind = "verified" /\ tasks[u].pc = "save_archive"
        /\ running = u
        /\ archive # <<>>

\* the entries held by the two files
PersistedEntries ==
    UNION ({EntrySet(accountsFile.data[i].history) : i \in 1..Len(accountsFile.data)}
           \cup {EntrySet(archiveFile.data[k].history) : k \in 1..Len(archiveFile.data)})

\* C19: between the two writes of an archival run, every entry that the ledger
\* file held before the run is in the ledger file or in the archive file.
C19_WritesOrdered ==
    \A t \in Tasks :
        (tasks[t].kind = "verified" /\ tasks[t].pc = "save_archive") =>
            \A i \in 1..Len(tasks[t].before) :
                EntrySet(tasks[t].before[i].history) \subseteq PersistedEntries

=============================================================================
